---------------------------- MODULE Spec2Model ----------------------------
(***************************************************************************)
(* Model of scripts/fetch-edhrec-data.py: the entry parser, the record     *)
(* extraction, the sequential fetch loop with rate limiting and the        *)
(* post-processing of main (sort, output document).                        *)
(*                                                                         *)
(* Text is modelled as a sequence of one-character tokens.  The token      *)
(* "sup2" stands for U+00B2 SUPERSCRIPT TWO, a character for which         *)
(* str.isdigit() is true and int() raises ValueError.                      *)
(***************************************************************************)
EXTENDS Integers, Sequences, FiniteSets, TLC

VARIABLES
    arg,         \* argument of the function under call
    ret,         \* its result, NotCalled before the call
    slugs,       \* main: slugs = TOP_COMMANDERS[:args.limit]
    i,           \* fetch_all_commanders: loop index (enumerate from 1)
    pc,          \* position of main / fetch_all_commanders
    commanders,  \* fetch_all_commanders: the list being built, then sorted
    events,      \* log of fetches and sleeps, in order
    outcomes,    \* log: the class of the response each fetched slug received
    output       \* main: output["commanders"], NotBuilt before it is built

vars == <<arg, ret, slugs, i, pc, commanders, events, outcomes, output>>

----------------------------------------------------------------------------
(* Bounds *)

MaxLineLen == 3
MaxRawLen == 5
NumSlugs == 3
MaxNumDecks == 1
MaxDeckLen == 2
MaxStubs == 2

----------------------------------------------------------------------------
(* Text *)

NotCalled == [called |-> FALSE]
Returned(v) == [called |-> TRUE, value |-> v]
Raised(e) == [raised |-> TRUE, exc |-> e]

AsciiDigits == {"0", "1", "2"}
Chars == AsciiDigits \cup {" ", "a", "A", "b", "sup2"}

\* str.isdigit() for one character: the decimal digits and the other
\* characters of Unicode property Numeric_Type=Digit (such as U+00B2)
CharIsDigit(c) == c \in AsciiDigits \cup {"sup2"}

\* str.isdigit(): true if all characters are digits and there is at least one
IsDigit(s) == Len(s) > 0 /\ \A k \in 1..Len(s) : CharIsDigit(s[k])

DigitValue(c) == CASE c = "0" -> 0 [] c = "1" -> 1 [] c = "2" -> 2 [] OTHER -> -1

RECURSIVE IntOf(_)
\* int(s) for a string of decimal digits
IntOf(s) ==
    IF Len(s) = 0 THEN 0
    ELSE 10 * IntOf(SubSeq(s, 1, Len(s) - 1)) + DigitValue(s[Len(s)])

\* int(s) raises ValueError unless every character is a decimal digit
IntRaises(s) == Len(s) = 0 \/ \E k \in 1..Len(s) : s[k] \notin AsciiDigits

\* str.lower() for one character
LowerChar(c) == IF c = "A" THEN "a" ELSE c
Lower(s) == [k \in 1..Len(s) |-> LowerChar(s[k])]

\* entry.split(" ", 1): at most one split, at the first space
Split1(entry) ==
    IF \E k \in 1..Len(entry) : entry[k] = " "
    THEN LET k == CHOOSE k \in 1..Len(entry) :
                      /\ entry[k] = " "
                      /\ \A j \in 1..(k - 1) : entry[j] # " "
         IN  <<SubSeq(entry, 1, k - 1), SubSeq(entry, k + 1, Len(entry))>>
    ELSE <<entry>>

\* A variant of parse_deck_entry whose fall-back quantity is 0
parse_deck_entry_default0(entry) ==
    LET parts == Split1(entry) IN
    IF Len(parts) = 2 /\ IsDigit(parts[1])
    THEN IF IntRaises(parts[1])
         THEN Raised("ValueError")
         ELSE [raised |-> FALSE, name |-> parts[2], quantity |-> IntOf(parts[1])]
    ELSE [raised |-> FALSE, name |-> entry, quantity |-> 0]

parse_deck_entry(entry) ==
    LET parts == Split1(entry) IN
    IF Len(parts) = 2 /\ IsDigit(parts[1])
    THEN IF IntRaises(parts[1])
         THEN Raised("ValueError")
         ELSE [raised |-> FALSE, name |-> parts[2], quantity |-> IntOf(parts[1])]
    ELSE [raised |-> FALSE, name |-> entry, quantity |-> 1]

----------------------------------------------------------------------------
(* Sequences *)

SeqsUpTo(S, n) == UNION {[1..k -> S] : k \in 0..n}
\* a line of three characters
L(a, b, c) == <<a, b, c>>
Elems(s) == {s[k] : k \in 1..Len(s)}

----------------------------------------------------------------------------
(* JSON values of the detail payload.  Every field value is tagged with   *)
(* its JSON type; "missing" is an absent key.                             *)

StrV(s) == [t |-> "str", s |-> s]
NameMissing == [t |-> "missing", s |-> <<>>]
NameNull == [t |-> "null", s |-> <<>>]
\* a name of the wrong type: the number 5
NameNumber == [t |-> "int", s |-> <<>>]

ListV(l) == [t |-> "list", l |-> l]
ListMissing == [t |-> "missing", l |-> <<>>]
\* a value of the wrong type where a list is expected: null, or a number
ListNull == [t |-> "null", l |-> <<>>]

IntV(n) == [t |-> "int", n |-> n]
IntMissing == [t |-> "missing", n |-> 0]
IntNull == [t |-> "null", n |-> 0]

\* The detail payload.  shape: "falsy" is a body such as {} or null,
\* "nondict" a truthy value that is not an object (such as [1]),
\* "badcontainer" an object whose "container" is not an object, "dict" an
\* object with container.json_dict.card being an object with the fields
\* name, color_identity, num_decks, and "deck" at top level.
Payload(shape, name, colors, num, deck) ==
    [shape |-> shape, name |-> name, color_identity |-> colors,
     num_decks |-> num, deck |-> deck]

None == [isNone |-> TRUE, name |-> NameNull, slug |-> 0, colorIdentity |-> <<>>,
         numDecks |-> IntNull, cards |-> <<>>]

----------------------------------------------------------------------------
(* extract_commander_info *)

color_order == <<"W", "U", "B", "R", "G">>

\* A variant that keeps the order of the raw list
ColorIdentityRawOrder(raw_colors) ==
    SelectSeq(raw_colors, LAMBDA c : c \in Elems(color_order))

\* [c for c in color_order if c in raw_colors]
ColorIdentity(raw_colors) ==
    SelectSeq(color_order, LAMBDA c : c \in Elems(raw_colors))

\* `not name`
NameIsFalsy(name) ==
    \/ name.t \in {"missing", "null"}
    \/ name.t = "str" /\ name.s = <<>>

RECURSIVE CardList(_, _)
\* the loop over deck_entries: the card list, or the exception it raises
CardList(deck_entries, name) ==
    IF deck_entries = <<>> THEN [raised |-> FALSE, cards |-> <<>>]
    ELSE LET parsed == parse_deck_entry(Head(deck_entries)) IN
         IF parsed.raised THEN [raised |-> TRUE, cards |-> <<>>]
         \* name.lower() raises AttributeError when name is not a string
         ELSE IF name.t # "str" THEN [raised |-> TRUE, cards |-> <<>>]
         ELSE LET rest == CardList(Tail(deck_entries), name) IN
              IF rest.raised THEN rest
              ELSE IF Lower(parsed.name) # Lower(name.s)
                   THEN [raised |-> FALSE,
                         cards |-> <<[name |-> parsed.name,
                                      quantity |-> parsed.quantity]>> \o rest.cards]
                   ELSE rest

\* A variant of extract_commander_info without the check of the name
extract_commander_info_no_name_check(data, slug) ==
    IF data.shape \in {"nondict", "badcontainer"} THEN None
    ELSE LET card == IF data.shape = "falsy"
                     THEN [name |-> NameMissing, color_identity |-> ListMissing,
                           num_decks |-> IntMissing]
                     ELSE data
             deck == IF data.shape = "falsy" THEN ListMissing ELSE data.deck
             name == IF card.name.t = "missing" THEN StrV(<<>>) ELSE card.name
             loop == CardList(deck.l, name)
         IN  IF card.color_identity.t = "null" THEN None
             ELSE IF deck.t = "null" THEN None
             ELSE IF loop.raised THEN None
             ELSE [isNone |-> FALSE,
                   name |-> name,
                   slug |-> slug,
                   colorIdentity |-> ColorIdentity(card.color_identity.l),
                   numDecks |-> IF card.num_decks.t = "missing"
                                THEN IntV(0) ELSE card.num_decks,
                   cards |-> loop.cards]

extract_commander_info(data, slug) ==
    \* data.get / container.get raise AttributeError: caught, None
    IF data.shape \in {"nondict", "badcontainer"} THEN None
    ELSE LET \* a falsy object is {}: every key is absent
             card == IF data.shape = "falsy"
                     THEN [name |-> NameMissing, color_identity |-> ListMissing,
                           num_decks |-> IntMissing]
                     ELSE data
             deck == IF data.shape = "falsy" THEN ListMissing ELSE data.deck
             \* card.get("name", "")
             name == IF card.name.t = "missing" THEN StrV(<<>>) ELSE card.name
             loop == CardList(deck.l, name)
         IN  IF NameIsFalsy(name) THEN None
             \* `c in raw_colors` raises TypeError: caught, None
             ELSE IF card.color_identity.t = "null" THEN None
             \* `for entry in deck_entries` raises TypeError: caught, None
             ELSE IF deck.t = "null" THEN None
             ELSE IF loop.raised THEN None
             ELSE [isNone |-> FALSE,
                   name |-> name,
                   slug |-> slug,
                   colorIdentity |-> ColorIdentity(card.color_identity.l),
                   \* card.get("num_decks", 0)
                   numDecks |-> IF card.num_decks.t = "missing"
                                THEN IntV(0) ELSE card.num_decks,
                   cards |-> loop.cards]

----------------------------------------------------------------------------
(* The pipeline's variables at rest (pure-function specifications) *)

PipelineIdle ==
    /\ slugs = <<>>
    /\ i = 0
    /\ pc = "idle"
    /\ commanders = <<>>
    /\ events = <<>>
    /\ outcomes = <<>>
    /\ output = [built |-> FALSE]

pipelineVars == <<slugs, i, pc, commanders, events, outcomes, output>>

----------------------------------------------------------------------------
(* Specification of parse_deck_entry over every line up to MaxLineLen *)

Lines == SeqsUpTo(Chars, MaxLineLen)

InitParse ==
    /\ arg \in Lines
    /\ ret = NotCalled
    /\ PipelineIdle

CallParse ==
    /\ pc = "idle"
    /\ ~ret.called
    /\ ret' = Returned(parse_deck_entry(arg))
    /\ UNCHANGED <<arg, pipelineVars>>

SpecParse == InitParse /\ [][CallParse]_vars

----------------------------------------------------------------------------
(* Specification of the canonicalisation over every raw tag list up to     *)
(* MaxRawLen                                                               *)

Symbols == Elems(color_order) \cup {"C"}
RawLists == SeqsUpTo(Symbols, MaxRawLen)

InitCanon ==
    /\ arg \in RawLists
    /\ ret = NotCalled
    /\ PipelineIdle

CallCanon ==
    /\ pc = "idle"
    /\ ~ret.called
    /\ ret' = Returned(ColorIdentity(arg))
    /\ UNCHANGED <<arg, pipelineVars>>

SpecCanon == InitCanon /\ [][CallCanon]_vars

----------------------------------------------------------------------------
(* Specification of extract_commander_info over the payloads               *)

\* deck lines: "1 b", "0 b", "2 a" (the line of the commander "A", in another
\* case), "b" (no prefix), "b 1" (prefix that is no number), "sup2 b"
DeckLines ==
    {L("1", " ", "b"), L("0", " ", "b"), L("2", " ", "a"), <<"b">>,
     L("b", " ", "1"), L("sup2", " ", "b")}

NameValues == {NameMissing, NameNull, NameNumber, StrV(<<>>), StrV(<<"A">>)}
ColorValues == {ListMissing, ListNull, ListV(<<"U", "W">>), ListV(<<"G", "C">>)}
NumValues == {IntMissing, IntNull} \cup {IntV(n) : n \in 0..MaxNumDecks}
DeckValues == {ListMissing, ListNull} \cup {ListV(d) : d \in SeqsUpTo(DeckLines, MaxDeckLen)}

DictPayloads ==
    {Payload("dict", n, c, d, k) :
        n \in NameValues, c \in ColorValues, d \in NumValues, k \in DeckValues}
OtherPayloads ==
    {Payload(s, NameMissing, ListMissing, IntMissing, ListMissing) :
        s \in {"falsy", "nondict", "badcontainer"}}
    \cup {Payload("badcontainer", StrV(<<"A">>), ListMissing, IntV(1), ListMissing)}
Payloads == DictPayloads \cup OtherPayloads

InitExtract ==
    /\ arg \in Payloads
    /\ ret = NotCalled
    /\ PipelineIdle

CallExtract ==
    /\ pc = "idle"
    /\ ~ret.called
    /\ ret' = Returned(extract_commander_info(arg, 1))
    /\ UNCHANGED <<arg, pipelineVars>>

SpecExtract == InitExtract /\ [][CallExtract]_vars

----------------------------------------------------------------------------
(* fetch_commander_data: what the request for one slug meets *)

\* "http_error": a non-2xx status (HTTPError); "url_error": host unreachable
\* or connection refused (URLError); "connect_timeout": a timeout while
\* connecting, which urlopen wraps in URLError; "read_timeout": a timeout
\* while the response is read, raised as TimeoutError; "bad_utf8": a body that
\* is not UTF-8, for which decode raises UnicodeDecodeError; "bad_json": a
\* UTF-8 body that is not JSON (JSONDecodeError); "json": a JSON body.
TransportKinds == {"http_error", "url_error", "connect_timeout", "read_timeout"}
DecodeKinds == {"bad_utf8", "bad_json"}

NoPayload == Payload("falsy", NameMissing, ListMissing, IntMissing, ListMissing)
Response(kind, data) == [kind |-> kind, data |-> data]

fetch_commander_data(resp) ==
    CASE resp.kind = "json" ->
            [raised |-> FALSE, exc |-> "", isNone |-> FALSE, data |-> resp.data]
      [] resp.kind \in {"http_error", "url_error", "connect_timeout", "bad_json"} ->
            \* except HTTPError / URLError / json.JSONDecodeError: return None
            [raised |-> FALSE, exc |-> "", isNone |-> TRUE, data |-> NoPayload]
      [] resp.kind = "read_timeout" ->
            \* no except clause matches: the exception leaves the function
            [raised |-> TRUE, exc |-> "TimeoutError", isNone |-> TRUE, data |-> NoPayload]
      [] resp.kind = "bad_utf8" ->
            [raised |-> TRUE, exc |-> "UnicodeDecodeError", isNone |-> TRUE,
             data |-> NoPayload]

\* `if data:` in fetch_all_commanders
DataIsTruthy(r) == ~r.isNone /\ r.data.shape # "falsy"

----------------------------------------------------------------------------
(* main and fetch_all_commanders *)

\* the module-level list, cut to its first NumSlugs entries; a slug is
\* modelled by its position in the list
TOP_COMMANDERS == [k \in 1..NumSlugs |-> k]

\* list[:limit]
SliceTo(list, limit) ==
    LET n == Len(list)
        stop == IF limit < 0
                THEN (IF n + limit < 0 THEN 0 ELSE n + limit)
                ELSE (IF limit > n THEN n ELSE limit)
    IN  SubSeq(list, 1, stop)

Limits == (-1)..(NumSlugs + 1)

\* the key function of the sort
Key(c) == c.numDecks.n

\* list.sort compares the keys: `<` between None and anything raises TypeError
SortRaises(list) ==
    Len(list) >= 2 /\ \E k \in 1..Len(list) : list[k].numDecks.t # "int"

\* insert c into the descending list `sorted`, after every element whose key
\* is greater than or equal to its own
InsertDesc(sorted, c) ==
    LET n == Cardinality({k \in 1..Len(sorted) : Key(sorted[k]) >= Key(c)})
    IN  SubSeq(sorted, 1, n) \o <<c>> \o SubSeq(sorted, n + 1, Len(sorted))

\* insert c before the elements with an equal key
InsertDescBeforeEqual(sorted, c) ==
    LET n == Cardinality({k \in 1..Len(sorted) : Key(sorted[k]) > Key(c)})
    IN  SubSeq(sorted, 1, n) \o <<c>> \o SubSeq(sorted, n + 1, Len(sorted))

RECURSIVE SortUnstable(_)
\* A variant of the sort that is not stable
SortUnstable(list) ==
    IF Len(list) <= 1 THEN list
    ELSE InsertDescBeforeEqual(SortUnstable(SubSeq(list, 1, Len(list) - 1)),
                               list[Len(list)])

RECURSIVE SortByNumDecks(_)
\* commanders.sort(key=lambda c: c["numDecks"], reverse=True): a stable sort,
\* descending
SortByNumDecks(list) ==
    IF Len(list) <= 1 THEN list
    ELSE InsertDesc(SortByNumDecks(SubSeq(list, 1, Len(list) - 1)),
                    list[Len(list)])

Responses ==
    {Response(k, NoPayload) : k \in TransportKinds \cup DecodeKinds}
    \cup {Response("json", Payload(s, NameMissing, ListMissing, IntMissing, ListMissing)) :
            s \in {"falsy", "nondict"}}
    \cup {Response("json", Payload("dict", n, ListV(<<"U", "W">>), d, k)) :
            n \in {NameMissing, StrV(<<"A">>)},
            d \in {IntNull} \cup {IntV(m) : m \in 0..MaxNumDecks},
            k \in {ListNull, ListV(<<L("2", " ", "b")>>),
                   ListV(<<L("sup2", " ", "b")>>)}}

\* the class of a response: transport failure, decode failure, extraction
\* failure or success
Class(resp) ==
    CASE resp.kind \in TransportKinds -> "transport"
      [] resp.kind \in DecodeKinds -> "decode"
      [] OTHER -> IF \/ resp.data.shape = "falsy"
                     \/ extract_commander_info(resp.data, 0).isNone
                  THEN "extract" ELSE "success"

Init ==
    /\ arg = <<>>
    /\ ret = NotCalled
    /\ \E limit \in Limits : slugs = SliceTo(TOP_COMMANDERS, limit)
    /\ i = 1
    /\ pc = "loop"
    /\ commanders = <<>>
    /\ events = <<>>
    /\ outcomes = <<>>
    /\ output = [built |-> FALSE]

\* one pass of the loop body up to the rate limiting (lines 315-327)
FetchOne(resp) ==
    /\ pc = "loop"
    /\ i <= Len(slugs)
    /\ events' = Append(events, <<"fetch", slugs[i]>>)
    /\ outcomes' = Append(outcomes, Class(resp))
    /\ LET data == fetch_commander_data(resp)
           commander == extract_commander_info(data.data, slugs[i])
       IN  IF data.raised
           THEN /\ pc' = "crashed_fetch"
                /\ UNCHANGED commanders
           ELSE /\ pc' = "rate_limit"
                /\ commanders' = IF DataIsTruthy(data) /\ ~commander.isNone
                                 THEN Append(commanders, commander)
                                 ELSE commanders
    /\ UNCHANGED <<arg, ret, slugs, i, output>>

\* if i < total: time.sleep(delay), then the next pass
RateLimit ==
    /\ pc = "rate_limit"
    /\ events' = IF i < Len(slugs) THEN Append(events, <<"sleep", slugs[i]>>) ELSE events
    /\ i' = i + 1
    /\ pc' = "loop"
    /\ UNCHANGED <<arg, ret, slugs, commanders, outcomes, output>>

\* the loop is over: return commanders; main sorts them
ReturnAndSort ==
    /\ pc = "loop"
    /\ i > Len(slugs)
    /\ IF SortRaises(commanders)
       THEN /\ pc' = "crashed_sort"
            /\ UNCHANGED commanders
       ELSE /\ pc' = "sorted"
            /\ commanders' = SortByNumDecks(commanders)
    /\ UNCHANGED <<arg, ret, slugs, i, events, outcomes, output>>

\* main builds the output document and writes it
WriteOutput ==
    /\ pc = "sorted"
    /\ output' = [built |-> TRUE, commanders |-> commanders]
    /\ pc' = "written"
    /\ UNCHANGED <<arg, ret, slugs, i, commanders, events, outcomes>>

Next ==
    \/ \E resp \in Responses : FetchOne(resp)
    \/ RateLimit
    \/ ReturnAndSort
    \/ WriteOutput

Spec == Init /\ [][Next]_vars

----------------------------------------------------------------------------
(* The Slug Crawler (section 4.1 of the design).  A catalog page is either *)
(* a page whose root holds the entries ("root"), a page whose data         *)
(* container holds card lists, here two, each with its entries ("nested"), *)
(* or a page whose fetch fails ("fail").  A stub carries an identifier, 0  *)
(* standing for a null or empty one.  The pages are chained in the order   *)
(* of the sequence; the last one has no next page.                         *)

Identifiers == 1..2
Stubs == {0} \cup Identifiers

Page(shape, entries, cut) == [shape |-> shape, entries |-> entries, cut |-> cut]

\* the sub-lists of a page, in order
SubLists(page) ==
    IF page.shape = "root" THEN <<page.entries>>
    ELSE <<SubSeq(page.entries, 1, page.cut),
           SubSeq(page.entries, page.cut + 1, Len(page.entries))>>

RECURSIVE ExtractAll(_, _)
\* A variant of the extraction that does not consult the seen identifiers
ExtractAll(entries, acc) ==
    IF entries = <<>> THEN acc
    ELSE ExtractAll(Tail(entries),
                    IF Head(entries) = 0 THEN acc ELSE Append(acc, Head(entries)))

RECURSIVE ExtractSlugs(_, _)
\* extract the identifiers of one entries collection: skip a stub whose
\* identifier is null/empty or already seen; acc is the ordered sequence so
\* far, whose elements are the seen identifiers
ExtractSlugs(entries, acc) ==
    IF entries = <<>> THEN acc
    ELSE ExtractSlugs(Tail(entries),
                      IF Head(entries) = 0 \/ Head(entries) \in Elems(acc)
                      THEN acc ELSE Append(acc, Head(entries)))

RECURSIVE ExtractLists(_, _)
ExtractLists(lists, acc) ==
    IF lists = <<>> THEN acc
    ELSE ExtractLists(Tail(lists), ExtractSlugs(Head(lists), acc))

RECURSIVE CrawlSlugs(_, _)
\* fetch the current page; a fetch failure ends the crawl with what is
\* accumulated; otherwise extract and advance to the next page, if any
CrawlSlugs(pages, acc) ==
    IF pages = <<>> THEN acc
    ELSE IF Head(pages).shape = "fail" THEN acc
    ELSE CrawlSlugs(Tail(pages), ExtractLists(SubLists(Head(pages)), acc))

StubLists == SeqsUpTo(Stubs, MaxStubs)
CatalogPages ==
    {Page("root", e, 0) : e \in StubLists}
    \cup {Page("nested", e, c) : e \in StubLists, c \in 0..MaxStubs}
    \cup {Page("fail", <<>>, 0)}
ValidPages == {p \in CatalogPages : p.cut <= Len(p.entries)}

InitCrawl ==
    /\ arg \in SeqsUpTo(ValidPages, 2)
    /\ ret = NotCalled
    /\ slugs = <<>>
    /\ i = 0
    /\ pc = "crawl"
    /\ commanders = <<>>
    /\ events = <<>>
    /\ outcomes = <<>>
    /\ output = [built |-> FALSE]

\* the crawl phase: the identifier sequence is materialised and handed on
Crawl ==
    /\ pc = "crawl"
    /\ slugs' = CrawlSlugs(arg, <<>>)
    /\ pc' = "crawled"
    /\ UNCHANGED <<arg, ret, i, commanders, events, outcomes, output>>

SpecCrawl == InitCrawl /\ [][Crawl]_vars

----------------------------------------------------------------------------
(* Claims about parse_deck_entry (SpecParse) *)

\* the line is "<N> <name>": a non-empty prefix of decimal digits, then the
\* first space
WellFormed(line) ==
    \E k \in 2..Len(line) :
        /\ line[k] = " "
        /\ \A j \in 1..(k - 1) : line[j] \in AsciiDigits

PrefixLen(line) == CHOOSE k \in 1..Len(line) : line[k + 1] = " " /\
                       \A j \in 1..k : line[j] \in AsciiDigits

RECURSIVE DecimalValue(_, _)
\* the value of the decimal digits line[1..k]
DecimalValue(line, k) ==
    IF k = 0 THEN 0
    ELSE 10 * DecimalValue(line, k - 1) + DigitValue(line[k])

\* C4: parse_deck_entry splits a line on its first space: for a line
\* "<N> <name>" whose prefix before the first space is all decimal digits it
\* returns (name, N), and for every other line it returns (line, 1).
C4_ParseOnFirstSpace ==
    ret.called =>
        /\ ~ret.value.raised
        /\ IF WellFormed(arg)
           THEN /\ ret.value.quantity = DecimalValue(arg, PrefixLen(arg))
                /\ ret.value.name = SubSeq(arg, PrefixLen(arg) + 2, Len(arg))
           ELSE /\ ret.value.quantity = 1
                /\ ret.value.name = arg

\* C5: parse_deck_entry is total: for every input line it returns a
\* (name, quantity) pair and never raises.
C5_ParseNeverRaises ==
    ret.called => ~ret.value.raised

----------------------------------------------------------------------------
(* Claims about the canonicalisation (SpecCanon) *)

Rank(c) == CHOOSE k \in 1..Len(color_order) : color_order[k] = c

\* C6: the colorIdentity of a raw tag list is exactly the set of symbols of
\* W,U,B,R,G that occur in the raw list, each once, in the fixed order
\* W,U,B,R,G; canonicalising a canonical sequence returns it unchanged.
C6_Canonical ==
    ret.called =>
        /\ Elems(ret.value) = Elems(arg) \cap Elems(color_order)
        /\ \A j, k \in 1..Len(ret.value) :
               j < k => Rank(ret.value[j]) < Rank(ret.value[k])
        /\ ColorIdentity(ret.value) = ret.value

\* a permutation of a subset with a repeated symbol and one outside the alphabet
C6_Witness ==
    /\ ret.called
    /\ arg = <<"G", "C", "U", "G", "W">>
    /\ ret.value = <<"W", "U", "G">>

----------------------------------------------------------------------------
(* Claims about extract_commander_info (SpecExtract) *)

Cards == ret.value.cards

\* C9 as stated: every line item of every record returned by
\* extract_commander_info has a quantity that is a positive integer (>= 1).
C9_QuantityPositive ==
    (ret.called /\ ~ret.value.isNone) =>
        \A k \in 1..Len(Cards) : Cards[k].quantity >= 1

\* C9 amended: every line item of every record returned by
\* extract_commander_info has a quantity that is a non-negative integer: the
\* value of the decimal prefix of its source line (0 for a prefix of zeros),
\* and 1 whenever the source line has no numeric prefix.
C9_QuantityNonNegative ==
    (ret.called /\ ~ret.value.isNone) =>
        \A k \in 1..Len(Cards) :
            /\ Cards[k].quantity \in Nat
            /\ \E line \in Elems(arg.deck.l) :
                   IF WellFormed(line)
                   THEN /\ Cards[k].quantity = DecimalValue(line, PrefixLen(line))
                        /\ Cards[k].name = SubSeq(line, PrefixLen(line) + 2, Len(line))
                   ELSE /\ Cards[k].quantity = 1
                        /\ Cards[k].name = line

\* a record with a line item of quantity 0 and one without a numeric prefix
C9_Witness ==
    /\ ret.called
    /\ ~ret.value.isNone
    /\ arg.deck.l = <<L("0", " ", "b"), L("b", " ", "1")>>
    /\ Cards = <<[name |-> <<"b">>, quantity |-> 0],
                 [name |-> L("b", " ", "1"), quantity |-> 1]>>

NameMissingOrEmpty(data) ==
    \/ data.shape # "dict"
    \/ data.name.t \in {"missing", "null"}
    \/ data.name = StrV(<<>>)

\* C10: extract_commander_info builds no record when the name field is
\* missing or empty, whatever the other fields hold, so every record has a
\* non-empty display name.
C10_NoRecordWithoutName ==
    ret.called =>
        /\ NameMissingOrEmpty(arg) => ret.value.isNone
        /\ ~ret.value.isNone =>
               /\ ret.value.name.t \in {"str", "int"}
               /\ ret.value.name.t = "str" => Len(ret.value.name.s) > 0

\* an empty name in a payload whose other fields are all usable
C10_Witness ==
    /\ ret.called
    /\ arg.shape = "dict"
    /\ arg.name = StrV(<<>>)
    /\ arg.color_identity = ListV(<<"U", "W">>)
    /\ arg.num_decks = IntV(1)
    /\ arg.deck = ListV(<<L("1", " ", "b")>>)
    /\ ret.value.isNone

----------------------------------------------------------------------------
(* Claims about fetch_all_commanders and main (Spec) *)

\* the run is over: the document is written, or an exception ended the run
Ended == pc \in {"written", "crashed_fetch", "crashed_sort"}

Succeeded == {j \in 1..Len(outcomes) : outcomes[j] = "success"}
Failed == {j \in 1..Len(outcomes) : outcomes[j] # "success"}

\* C1: for every identifier sequence of length N and every assignment of
\* outcomes, if K identifiers fail and the others succeed, the run returns
\* exactly N-K records and the output document holds exactly those: one per
\* succeeding identifier, carrying its slug, none for a failing identifier.
C1_ExactlyTheSuccesses ==
    Ended =>
        /\ Len(outcomes) = Len(slugs)
        /\ output.built
        /\ Len(output.commanders) = Len(slugs) - Cardinality(Failed)
        /\ {output.commanders[k].slug : k \in 1..Len(output.commanders)}
               = {slugs[j] : j \in Succeeded}

\* C2: per-entity failures are isolated: whatever transport, decode or
\* extraction failure occurs for an identifier, no exception leaves that
\* identifier's processing step.
C2_NoExceptionLeavesTheStep ==
    pc # "crashed_fetch"

Pos(slug) == CHOOSE j \in 1..Len(slugs) : slugs[j] = slug

\* C3: in the output document the records are sorted in descending order of
\* numDecks, and records with equal numDecks keep the order in which their
\* identifiers were fetched.
C3_SortedAndStable ==
    output.built =>
        \A j, k \in 1..Len(output.commanders) :
            j < k =>
                LET a == output.commanders[j]
                    b == output.commanders[k]
                IN  /\ a.numDecks.n >= b.numDecks.n
                    /\ a.numDecks.n = b.numDecks.n => Pos(a.slug) < Pos(b.slug)

\* three records, the first fetched has the lowest count and the other two tie
C3_Witness ==
    /\ output.built
    /\ Len(output.commanders) = 3
    /\ output.commanders[1].slug = 2
    /\ output.commanders[2].slug = 3
    /\ output.commanders[3].slug = 1
    /\ output.commanders[1].numDecks = output.commanders[2].numDecks

RECURSIVE ExpectedEvents(_)
\* fetch s1, sleep, fetch s2, ..., sleep, fetch sN
ExpectedEvents(n) ==
    IF n = 0 THEN <<>>
    ELSE IF n = 1 THEN << <<"fetch", slugs[1]>> >>
    ELSE ExpectedEvents(n - 1) \o << <<"sleep", slugs[n - 1]>>, <<"fetch", slugs[n]>> >>

\* C7: the identifiers are fetched one at a time in input order, each exactly
\* once, with the delay exactly once between two consecutive fetches, whether
\* the earlier fetch succeeded or failed, and never after the last fetch: for
\* N identifiers there are exactly max(N-1, 0) delays.
C7_EachOnceWithDelaysBetween ==
    Ended => events = ExpectedEvents(Len(slugs))

----------------------------------------------------------------------------
(* Claims about the Slug Crawler (SpecCrawl) *)

\* the pages the crawl fetched: those before the first failing fetch
RECURSIVE Fetched(_)
Fetched(pages) ==
    IF pages = <<>> \/ Head(pages).shape = "fail" THEN <<>>
    ELSE <<Head(pages)>> \o Fetched(Tail(pages))

RECURSIVE Stream(_)
\* the stubs of the pages, in the order of the pages
Stream(pages) ==
    IF pages = <<>> THEN <<>> ELSE Head(pages).entries \o Stream(Tail(pages))

FirstOcc(s, x) == CHOOSE k \in 1..Len(s) : s[k] = x /\ \A j \in 1..(k - 1) : s[j] # x

\* C8: for any sequence of catalog pages in which an identifier occurs more
\* than once, within a page or across pages, the identifier sequence handed
\* to the Aggregator holds it exactly once, at the position of its first
\* occurrence.
C8_CrawlerDeduplicates ==
    pc = "crawled" =>
        LET stream == Stream(Fetched(arg)) IN
        /\ Elems(slugs) = Elems(stream) \ {0}
        /\ \A j, k \in 1..Len(slugs) : slugs[j] = slugs[k] => j = k
        /\ \A j, k \in 1..Len(slugs) :
               j < k => FirstOcc(stream, slugs[j]) < FirstOcc(stream, slugs[k])

\* an identifier repeated within a nested page and again on the next page
C8_Witness ==
    /\ pc = "crawled"
    /\ arg = <<Page("nested", <<2, 2>>, 1), Page("root", <<1, 2>>, 0)>>
    /\ slugs = <<2, 1>>

=============================================================================
